---- MODULE Spec2Model ----
(***************************************************************************)
(* Model of the nachet metadata shaper                                     *)
(* (datastore/db/metadata/machine_learning) and of the inference query     *)
(* layer (datastore/db/queries/inference).                                 *)
(*                                                                         *)
(* A Python str is a sequence of one-character strings.  A Python value is *)
(* a record [t, s, n, items, keys] whose tag t says which fields count.    *)
(***************************************************************************)
EXTENDS Integers, Sequences, FiniteSets, TLC

VARIABLES
    fn,          \* metadata shaper: the function being called ("none": no call)
    args,        \* metadata shaper: its arguments
    result,      \* metadata shaper: its outcome (Pending until it has run)
    inference,   \* table inference: id -> row
    object,      \* table object: id -> row
    seed_obj,    \* table seed_obj: id -> row
    ret,         \* query layer: the last call, its arguments and its outcome
    inserted     \* history: what each successful insert was called with

vars == <<fn, args, result, inference, object, seed_obj, ret, inserted>>

(***************************************************************************)
(* Python values                                                           *)
(***************************************************************************)
PyStr(s) == [t |-> "str", s |-> s, n |-> 0, items |-> <<>>, keys |-> <<>>]
PyInt(n) == [t |-> "int", s |-> <<>>, n |-> n, items |-> <<>>, keys |-> <<>>]
\* a float whole.frac, frac being the digits repr() prints after the point
PyFloat(whole, frac) ==
    [t |-> "float", s |-> frac, n |-> whole, items |-> <<>>, keys |-> <<>>]
PyBool(b) ==
    [t |-> "bool", s |-> <<>>, n |-> IF b THEN 1 ELSE 0, items |-> <<>>, keys |-> <<>>]
PyNone == [t |-> "none", s |-> <<>>, n |-> 0, items |-> <<>>, keys |-> <<>>]
PyList(items) == [t |-> "list", s |-> <<>>, n |-> 0, items |-> items, keys |-> <<>>]
\* a dict in insertion order: keys[i] maps to items[i]
PyDict(keys, items) ==
    [t |-> "dict", s |-> <<>>, n |-> 0, items |-> items, keys |-> keys]
\* a uuid.UUID object, s being its canonical text
PyUuid(s) == [t |-> "uuid", s |-> s, n |-> 0, items |-> <<>>, keys |-> <<>>]

Digits == <<"0", "1", "2", "3", "4", "5", "6", "7", "8", "9">>
IsDigit(c) == \E d \in 1..10 : Digits[d] = c
DigitVal(c) == (CHOOSE d \in 1..10 : Digits[d] = c) - 1

RECURSIVE NatChars(_)
NatChars(n) ==
    IF n < 10 THEN <<Digits[n + 1]>>
    ELSE NatChars(n \div 10) \o <<Digits[(n % 10) + 1]>>

IntChars(n) == IF n < 0 THEN <<"-">> \o NatChars(-n) ELSE NatChars(n)

\* str(x) as the export builders use it on an id
Str(v) ==
    CASE v.t = "str" -> v
      [] v.t = "uuid" -> PyStr(v.s)
      [] v.t = "int" -> PyStr(IntChars(v.n))
      [] OTHER -> PyStr(<<"?">>)

(***************************************************************************)
(* json.dumps with its defaults: separators ", " and ": ", ensure_ascii    *)
(***************************************************************************)
EscapeChar(c) ==
    IF c = "\"" THEN <<"\\", "\"">>
    ELSE IF c = "\\" THEN <<"\\", "\\">>
    ELSE IF c = "\n" THEN <<"\\", "n">>
    ELSE <<c>>

RECURSIVE EscapeFrom(_, _)
EscapeFrom(s, i) ==
    IF i > Len(s) THEN <<>> ELSE EscapeChar(s[i]) \o EscapeFrom(s, i + 1)

EncodeStr(s) == <<"\"">> \o EscapeFrom(s, 1) \o <<"\"">>

RECURSIVE Encode(_), EncodeItems(_, _), EncodeMembers(_, _, _)
EncodeItems(items, i) ==
    IF i > Len(items) THEN <<>>
    ELSE (IF i > 1 THEN <<",", " ">> ELSE <<>>)
         \o Encode(items[i]) \o EncodeItems(items, i + 1)

EncodeMembers(keys, items, i) ==
    IF i > Len(keys) THEN <<>>
    ELSE (IF i > 1 THEN <<",", " ">> ELSE <<>>)
         \o EncodeStr(keys[i]) \o <<":", " ">> \o Encode(items[i])
         \o EncodeMembers(keys, items, i + 1)

Encode(v) ==
    CASE v.t = "str" -> EncodeStr(v.s)
      [] v.t = "int" -> IntChars(v.n)
      [] v.t = "float" -> IntChars(v.n) \o <<".">> \o v.s
      [] v.t = "bool" -> IF v.n = 1 THEN <<"t", "r", "u", "e">>
                                    ELSE <<"f", "a", "l", "s", "e">>
      [] v.t = "none" -> <<"n", "u", "l", "l">>
      [] v.t = "list" -> <<"[">> \o EncodeItems(v.items, 1) \o <<"]">>
      [] v.t = "dict" -> <<"{">> \o EncodeMembers(v.keys, v.items, 1) \o <<"}">>

dumps(v) == Encode(v)

(***************************************************************************)
(* json.loads, the reader the round-trip property decodes with.  A parse   *)
(* step returns [ok, v, i]: the value read and the index after it.         *)
(***************************************************************************)
PyError == [t |-> "error", s |-> <<>>, n |-> 0, items |-> <<>>, keys |-> <<>>]
Fail == [ok |-> FALSE, v |-> PyError, i |-> 0]
Got(v, i) == [ok |-> TRUE, v |-> v, i |-> i]

IsWs(c) == c \in {" ", "\n", "\t", "\r"}

RECURSIVE SkipWs(_, _)
SkipWs(txt, i) ==
    IF i <= Len(txt) /\ IsWs(txt[i]) THEN SkipWs(txt, i + 1) ELSE i

At(txt, i, c) == i <= Len(txt) /\ txt[i] = c

Unescape(c) ==
    IF c = "n" THEN "\n" ELSE IF c = "t" THEN "\t" ELSE IF c = "r" THEN "\r" ELSE c

\* the body of a string, i just after its opening quote
RECURSIVE ParseStrBody(_, _, _)
ParseStrBody(txt, i, acc) ==
    IF i > Len(txt) THEN Fail
    ELSE IF txt[i] = "\"" THEN Got(acc, i + 1)
    ELSE IF txt[i] = "\\" THEN
        IF i + 1 > Len(txt) \/ txt[i + 1] \notin {"\"", "\\", "/", "n", "t", "r"}
        THEN Fail
        ELSE ParseStrBody(txt, i + 2, Append(acc, Unescape(txt[i + 1])))
    ELSE IF txt[i] = "\n" THEN Fail
    ELSE ParseStrBody(txt, i + 1, Append(acc, txt[i]))

RECURSIVE DigitsEnd(_, _)
DigitsEnd(txt, i) ==
    IF i <= Len(txt) /\ IsDigit(txt[i]) THEN DigitsEnd(txt, i + 1) ELSE i

RECURSIVE NatOf(_, _, _, _)
NatOf(txt, i, j, acc) ==
    IF i >= j THEN acc ELSE NatOf(txt, i + 1, j, acc * 10 + DigitVal(txt[i]))

\* float() of the digits after the point: repr() prints no trailing zeros
RECURSIVE TrimFrac(_)
TrimFrac(f) ==
    IF Len(f) > 1 /\ f[Len(f)] = "0" THEN TrimFrac(SubSeq(f, 1, Len(f) - 1)) ELSE f

ParseNumber(txt, i) ==
    LET neg == At(txt, i, "-")
        a == IF neg THEN i + 1 ELSE i
        b == DigitsEnd(txt, a)
        c == IF At(txt, b, ".") THEN DigitsEnd(txt, b + 1) ELSE b
        mag == NatOf(txt, a, b, 0)
        whole == IF neg THEN -mag ELSE mag
    IN  IF b = a \/ (b - a > 1 /\ txt[a] = "0") THEN Fail
        ELSE IF At(txt, b, ".") THEN
            IF c = b + 1 THEN Fail
            ELSE Got(PyFloat(whole, TrimFrac(SubSeq(txt, b + 1, c - 1))), c)
        ELSE Got(PyInt(whole), b)

HasWord(txt, i, w) ==
    i + Len(w) - 1 <= Len(txt) /\ SubSeq(txt, i, i + Len(w) - 1) = w

RECURSIVE ParseValue(_, _), ParseItems(_, _, _), ParseMembers(_, _, _, _)
\* the elements of an array, i at the first element or after a comma
ParseItems(txt, i, acc) ==
    LET e == ParseValue(txt, i)
        j == SkipWs(txt, e.i)
    IN  IF ~e.ok THEN Fail
        ELSE IF At(txt, j, ",") THEN ParseItems(txt, j + 1, Append(acc, e.v))
        ELSE IF At(txt, j, "]") THEN Got(PyList(Append(acc, e.v)), j + 1)
        ELSE Fail

\* the members of an object; a repeated key keeps its place and takes the
\* later value, as a dict does
ParseMembers(txt, i, ks, vs) ==
    LET a == SkipWs(txt, i)
        k == IF At(txt, a, "\"") THEN ParseStrBody(txt, a + 1, <<>>) ELSE Fail
        b == SkipWs(txt, k.i)
        e == IF k.ok /\ At(txt, b, ":") THEN ParseValue(txt, b + 1) ELSE Fail
        j == SkipWs(txt, e.i)
        old == {p \in 1..Len(ks) : ks[p] = k.v}
        ks2 == IF old = {} THEN Append(ks, k.v) ELSE ks
        vs2 == IF old = {} THEN Append(vs, e.v)
               ELSE [vs EXCEPT ![CHOOSE p \in old : TRUE] = e.v]
    IN  IF ~e.ok THEN Fail
        ELSE IF At(txt, j, ",") THEN ParseMembers(txt, j + 1, ks2, vs2)
        ELSE IF At(txt, j, "}") THEN Got(PyDict(ks2, vs2), j + 1)
        ELSE Fail

ParseValue(txt, i0) ==
    LET i == SkipWs(txt, i0)
        s == ParseStrBody(txt, i + 1, <<>>)
    IN  IF i > Len(txt) THEN Fail
        ELSE IF txt[i] = "\"" THEN (IF s.ok THEN Got(PyStr(s.v), s.i) ELSE Fail)
        ELSE IF txt[i] = "[" THEN
            (IF At(txt, SkipWs(txt, i + 1), "]")
             THEN Got(PyList(<<>>), SkipWs(txt, i + 1) + 1)
             ELSE ParseItems(txt, i + 1, <<>>))
        ELSE IF txt[i] = "{" THEN
            (IF At(txt, SkipWs(txt, i + 1), "}")
             THEN Got(PyDict(<<>>, <<>>), SkipWs(txt, i + 1) + 1)
             ELSE ParseMembers(txt, i + 1, <<>>, <<>>))
        ELSE IF HasWord(txt, i, <<"t", "r", "u", "e">>) THEN Got(PyBool(TRUE), i + 4)
        ELSE IF HasWord(txt, i, <<"f", "a", "l", "s", "e">>) THEN Got(PyBool(FALSE), i + 5)
        ELSE IF HasWord(txt, i, <<"n", "u", "l", "l">>) THEN Got(PyNone, i + 4)
        ELSE ParseNumber(txt, i)

loads(txt) ==
    LET r == ParseValue(txt, 1)
    IN  IF r.ok /\ SkipWs(txt, r.i) > Len(txt) THEN r.v ELSE PyError

\* a dict value as the mapping it denotes
AsMapping(v) ==
    [k \in {v.keys[p] : p \in 1..Len(v.keys)} |->
        v.items[CHOOSE p \in 1..Len(v.keys) : v.keys[p] = k]]

(***************************************************************************)
(* The key names of the metadata shaper, as Python strs                    *)
(***************************************************************************)
K_models ==
    <<"m", "o", "d", "e", "l", "s">>
K_created_by ==
    <<"c", "r", "e", "a", "t", "e", "d", "_", "b", "y">>
K_creation_date ==
    <<"c", "r", "e", "a", "t", "i", "o", "n", "_", "d", "a", "t", "e">>
K_description ==
    <<"d", "e", "s", "c", "r", "i", "p", "t", "i", "o", "n">>
K_job_name ==
    <<"j", "o", "b", "_", "n", "a", "m", "e">>
K_version ==
    <<"v", "e", "r", "s", "i", "o", "n">>
K_dataset_description ==
    <<"d", "a", "t", "a", "s", "e", "t", "_", "d", "e", "s", "c", "r", "i", "p", "t", "i", "o", "n">>
K_Accuracy ==
    <<"A", "c", "c", "u", "r", "a", "c", "y">>
K_endpoint ==
    <<"e", "n", "d", "p", "o", "i", "n", "t">>
K_api_key ==
    <<"a", "p", "i", "_", "k", "e", "y">>
K_content_type ==
    <<"c", "o", "n", "t", "e", "n", "t", "_", "t", "y", "p", "e">>
K_deployment_platform ==
    <<"d", "e", "p", "l", "o", "y", "m", "e", "n", "t", "_", "p", "l", "a", "t", "f", "o", "r", "m">>
K_pipeline_id ==
    <<"p", "i", "p", "e", "l", "i", "n", "e", "_", "i", "d">>
K_pipeline_name ==
    <<"p", "i", "p", "e", "l", "i", "n", "e", "_", "n", "a", "m", "e">>
K_default ==
    <<"d", "e", "f", "a", "u", "l", "t">>
K_model_id ==
    <<"m", "o", "d", "e", "l", "_", "i", "d">>
K_model_name ==
    <<"m", "o", "d", "e", "l", "_", "n", "a", "m", "e">>
K_endpoint_name ==
    <<"e", "n", "d", "p", "o", "i", "n", "t", "_", "n", "a", "m", "e">>
K_task ==
    <<"t", "a", "s", "k">>

MissingKeyPrefix ==
    <<"M", "i", "s", "s", "i", "n", "g", " ", "k", "e", "y", ":", " ">>

(***************************************************************************)
(* Outcomes of a call                                                      *)
(***************************************************************************)
Pending == [kind |-> "pending"]
Return(v) == [kind |-> "return", value |-> v]
Raise(exc, msg) == [kind |-> "raise", exc |-> exc, msg |-> msg]

(***************************************************************************)
(* build_pipeline_import, build_model_import                               *)
(***************************************************************************)
NoKey == <<>>

\* the loop collecting to its end: the last absent key is the one reported
RECURSIVE LastMissing(_, _, _)
LastMissing(keys, i, d) ==
    IF i > Len(keys) THEN NoKey
    ELSE IF LastMissing(keys, i + 1, d) # NoKey THEN LastMissing(keys, i + 1, d)
    ELSE IF keys[i] \notin DOMAIN d THEN keys[i]
    ELSE NoKey

\* for key in keys: if not key in d: raise MissingKeyError(key)
RECURSIVE FirstMissing(_, _, _)
FirstMissing(keys, i, d) ==
    IF i > Len(keys) THEN NoKey
    ELSE IF keys[i] \notin DOMAIN d THEN keys[i]
    ELSE FirstMissing(keys, i + 1, d)

PipelineKeys ==
    <<K_models, K_created_by, K_creation_date, K_description, K_job_name,
      K_version, K_dataset_description, K_Accuracy>>

ModelKeys ==
    <<K_endpoint, K_api_key, K_content_type, K_deployment_platform,
      K_created_by, K_creation_date, K_description, K_version, K_job_name,
      K_dataset_description, K_Accuracy>>

\* a miscopied entry of the dict literal: the second key reads the first's value
ProjectMiscopied(ks, d) ==
    PyDict(ks, [i \in 1..Len(ks) |-> d[ks[IF i = 2 THEN 1 ELSE i]]])

\* the dict literal {"k": d["k"], ...} over the keys ks, in their order
Project(ks, d) == PyDict(ks, [i \in 1..Len(ks) |-> d[ks[i]]])

\* except MissingKeyError as e: raise MissingKeyError(f"Missing key: {e}")
Reraise(key) == Raise("MissingKeyError", MissingKeyPrefix \o key)

build_pipeline_import(pipeline) ==
    LET key == FirstMissing(PipelineKeys, 1, pipeline)
        pipeline_db == Project(PipelineKeys, pipeline)
    IN  IF key # NoKey THEN Reraise(key) ELSE Return(dumps(pipeline_db))

build_model_import(model) ==
    LET key == FirstMissing(ModelKeys, 1, model)
        model_db == Project(ModelKeys, model)
    IN  IF key # NoKey THEN Reraise(key) ELSE Return(dumps(model_db))

(***************************************************************************)
(* build_pipeline_export, build_model_export: the result is a dict, here   *)
(* the mapping from its keys to its values                                 *)
(***************************************************************************)
\* the merge with setdefault semantics: a base key keeps the argument's value
MergeBaseWins(base, data) ==
    [k \in DOMAIN base \cup DOMAIN data |->
        IF k \in DOMAIN base THEN base[k] ELSE data[k]]

\* for key in data: base[key] = data[key]
Merge(base, data) ==
    [k \in DOMAIN base \cup DOMAIN data |->
        IF k \in DOMAIN data THEN data[k] ELSE base[k]]

PipelineBase(name, id, default, model_ids) ==
    [k \in {K_models, K_pipeline_id, K_pipeline_name, K_default} |->
        CASE k = K_models -> model_ids
          [] k = K_pipeline_id -> Str(id)
          [] k = K_pipeline_name -> name
          [] k = K_default -> default]

build_pipeline_export(data, name, id, default, model_ids) ==
    Return(Merge(PipelineBase(name, id, default, model_ids), data))

ModelBase(id, name, endpoint, task_name, version) ==
    [k \in {K_model_id, K_model_name, K_endpoint_name, K_task, K_version} |->
        CASE k = K_model_id -> Str(id)
          [] k = K_model_name -> name
          [] k = K_endpoint_name -> endpoint
          [] k = K_task -> task_name
          [] k = K_version -> version]

build_model_export(data, id, name, endpoint, task_name, version) ==
    Return(Merge(ModelBase(id, name, endpoint, task_name, version), data))

(***************************************************************************)
(* Inputs of the metadata shaper                                           *)
(***************************************************************************)
MaxMissing == 2   \* required keys an import record may lack
MaxExtra == 1     \* keys an import record may carry beyond the required ones

K_extra ==
    <<"e", "x", "t", "r", "a">>

\* values a record read from a metadata file holds
ValuePool ==
    << PyStr(<<"u", "1">>),
       PyStr(<<"a", "\"", "b", "\\", ",", " ", "}", ":", "\n">>),
       PyInt(-120),
       PyFloat(0, <<"9">>),
       PyBool(TRUE),
       PyNone,
       PyList(<<PyStr(<<"m", "1">>), PyInt(7), PyList(<<>>)>>),
       PyStr(<<>>),
       PyDict(<<<<"k">>, K_models>>, <<PyFloat(12, <<"0", "5">>), PyBool(FALSE)>>),
       PyList(<<>>) >>

AllKeys ==
    <<K_models, K_created_by, K_creation_date, K_description, K_job_name,
      K_version, K_dataset_description, K_Accuracy, K_endpoint, K_api_key,
      K_content_type, K_deployment_platform, K_pipeline_id, K_pipeline_name,
      K_default, K_model_id, K_model_name, K_endpoint_name, K_task, K_extra>>

KeyIndex(k) == CHOOSE i \in 1..Len(AllKeys) : AllKeys[i] = k

\* the record over the keys ks whose values are the pool's, turned by off
RecordOver(ks, off) ==
    [k \in ks |-> ValuePool[((KeyIndex(k) + off) % Len(ValuePool)) + 1]]

Range(seq) == {seq[i] : i \in 1..Len(seq)}

ImportRecords(keys) ==
    {RecordOver((Range(keys) \ miss) \cup extra, off) :
        miss \in {m \in SUBSET Range(keys) : Cardinality(m) <= MaxMissing},
        extra \in {e \in SUBSET {K_extra, K_pipeline_id, K_default, K_task} :
                      Cardinality(e) <= MaxExtra},
        off \in 0..(Len(ValuePool) - 1)}

ExportData ==
    {RecordOver(ks, off) :
        ks \in SUBSET {K_models, K_default, K_version, K_description, K_pipeline_id},
        off \in {0, 3, 6}}

IdPool ==
    {PyInt(42), PyStr(<<"p", "1">>), PyUuid(<<"0", "f", "-", "9", "a">>)}

NoTable == <<>>
NoCall ==
    [op |-> "none", arg |-> <<>>, drv |-> TRUE, now |-> "NULL",
     kind |-> "none", value |-> <<>>, exc |-> "none"]

StoreIdle ==
    /\ inference = NoTable
    /\ object = NoTable
    /\ seed_obj = NoTable
    /\ ret = NoCall
    /\ inserted = [inference |-> NoTable, object |-> NoTable, seed_obj |-> NoTable]

InitML ==
    /\ StoreIdle
    /\ result = Pending
    /\ \/ /\ fn = "build_pipeline_import"
          /\ \E d \in ImportRecords(PipelineKeys) : args = [pipeline |-> d]
       \/ /\ fn = "build_model_import"
          /\ \E d \in ImportRecords(ModelKeys) : args = [model |-> d]
       \/ /\ fn = "build_pipeline_export"
          /\ \E d \in ExportData, id \in IdPool, default \in BOOLEAN :
                args = [data |-> d, name |-> PyStr(<<"n">>), id |-> id,
                        default |-> PyBool(default),
                        model_ids |-> PyList(<<PyStr(<<"m", "1">>)>>)]
       \/ /\ fn = "build_model_export"
          /\ \E d \in ExportData, id \in IdPool :
                args = [data |-> d, id |-> id, name |-> PyStr(<<"n">>),
                        endpoint |-> PyStr(<<"e">>), task_name |-> PyStr(<<"t">>),
                        version |-> PyStr(<<"1">>)]

StoreVars == <<inference, object, seed_obj, ret, inserted>>

CallPipelineImport ==
    /\ fn = "build_pipeline_import" /\ result.kind = "pending"
    /\ result' = build_pipeline_import(args.pipeline)
    /\ UNCHANGED <<fn, args, StoreVars>>

CallModelImport ==
    /\ fn = "build_model_import" /\ result.kind = "pending"
    /\ result' = build_model_import(args.model)
    /\ UNCHANGED <<fn, args, StoreVars>>

CallPipelineExport ==
    /\ fn = "build_pipeline_export" /\ result.kind = "pending"
    /\ result' = build_pipeline_export(args.data, args.name, args.id,
                                       args.default, args.model_ids)
    /\ UNCHANGED <<fn, args, StoreVars>>

CallModelExport ==
    /\ fn = "build_model_export" /\ result.kind = "pending"
    /\ result' = build_model_export(args.data, args.id, args.name,
                                    args.endpoint, args.task_name, args.version)
    /\ UNCHANGED <<fn, args, StoreVars>>

NextML ==
    \/ CallPipelineImport
    \/ CallModelImport
    \/ CallPipelineExport
    \/ CallModelExport

SpecML == InitML /\ [][NextML]_vars

(***************************************************************************)
(* Properties of the metadata shaper, under SpecML                         *)
(***************************************************************************)
IsImport == fn \in {"build_pipeline_import", "build_model_import"}
IsExport == fn \in {"build_pipeline_export", "build_model_export"}
Done == result.kind # "pending"

ImportArg == IF fn = "build_pipeline_import" THEN args.pipeline ELSE args.model
Required == IF fn = "build_pipeline_import" THEN PipelineKeys ELSE ModelKeys
Complete == Range(Required) \subseteq DOMAIN ImportArg

\* C1: an import of a record holding every required key (8 for a pipeline,
\* 11 for a model), whatever else it holds, returns a text that json decodes
\* to a dict over exactly the required keys, each with the input's value.
C1_ImportKeepsRequired ==
    (IsImport /\ Done /\ Complete) =>
        /\ result.kind = "return"
        /\ Len(Required) = (IF fn = "build_pipeline_import" THEN 8 ELSE 11)
        /\ loads(result.value).t = "dict"
        /\ AsMapping(loads(result.value)) = [k \in Range(Required) |-> ImportArg[k]]

\* a complete record with an extra key and a text that needs escaping was imported
C1_Witness ==
    /\ IsImport /\ Done /\ Complete
    /\ DOMAIN ImportArg # Range(Required)
    /\ \E k \in Range(Required) : ImportArg[k] = ValuePool[2]
    /\ result.kind = "return"

\* the first required key, in declaration order, that the record lacks
FirstAbsent ==
    Required[CHOOSE i \in 1..Len(Required) :
                /\ Required[i] \notin DOMAIN ImportArg
                /\ \A j \in 1..(i - 1) : Required[j] \in DOMAIN ImportArg]

\* C2: an import of a record lacking a required key raises MissingKeyError,
\* returns no text, and its message names one key: the first absent one in
\* the declaration order of the required keys.
C2_MissingNamesFirstAbsent ==
    (IsImport /\ Done /\ ~Complete) =>
        /\ result.kind = "raise"
        /\ result.exc = "MissingKeyError"
        /\ result.msg = MissingKeyPrefix \o FirstAbsent

\* an import of a record lacking two required keys has raised
C2_Witness ==
    /\ IsImport /\ Done
    /\ Cardinality(Range(Required) \ DOMAIN ImportArg) = 2
    /\ result.kind = "raise"

BaseKeys ==
    IF fn = "build_pipeline_export"
    THEN {K_models, K_pipeline_id, K_pipeline_name, K_default}
    ELSE {K_model_id, K_model_name, K_endpoint_name, K_task, K_version}

\* the text of each id of IdPool
IdText(id) ==
    CASE id = PyInt(42) -> PyStr(<<"4", "2">>)
      [] id = PyStr(<<"p", "1">>) -> PyStr(<<"p", "1">>)
      [] id = PyUuid(<<"0", "f", "-", "9", "a">>) -> PyStr(<<"0", "f", "-", "9", "a">>)

\* the value the explicit argument gives a base key
FromArgument(k) ==
    CASE k = K_models -> args.model_ids
      [] k \in {K_pipeline_id, K_model_id} -> IdText(args.id)
      [] k \in {K_pipeline_name, K_model_name} -> args.name
      [] k = K_default -> args.default
      [] k = K_endpoint_name -> args.endpoint
      [] k = K_task -> args.task_name
      [] k = K_version -> args.version

\* C3: an export's keys are the base keys and the keys of data; a key of
\* data has data's value, also when it is a base key; a base key that data
\* lacks has the argument's value, the id as text.
C3_ExportMerge ==
    (IsExport /\ Done) =>
        /\ result.kind = "return"
        /\ DOMAIN result.value = BaseKeys \cup DOMAIN args.data
        /\ \A k \in DOMAIN args.data : result.value[k] = args.data[k]
        /\ \A k \in BaseKeys \ DOMAIN args.data : result.value[k] = FromArgument(k)

\* an export whose data names a base key with another value than the
\* argument's, and lacks the id, has returned
C3_Witness ==
    /\ IsExport /\ Done
    /\ \E k \in BaseKeys \cap DOMAIN args.data : args.data[k] # FromArgument(k)
    /\ args.id.t # "str"
    /\ BaseKeys \ DOMAIN args.data # {}

(***************************************************************************)
(* The store behind the cursor: three tables, each a function from the ids *)
(* of its rows to the rows.  Ids and column values are strings; a column   *)
(* an INSERT does not name holds Null.                                     *)
(***************************************************************************)
MaxRows == 3   \* rows of the three tables together

Null == "NULL"
IdNames == <<"id1", "id2", "id3", "id4", "id5", "id6">>

Contents == {"inf_a", "inf_b"}
Boxes == {"box_a"}
Users == {"u1"}
Seeds == {"s1"}
Scores == {"0.75", "0.2"}
Flags == {"TRUE"}
Timestamps == {"t1"}

RowCount == Cardinality(DOMAIN inference) + Cardinality(DOMAIN object)
            + Cardinality(DOMAIN seed_obj)

\* INSERT ... RETURNING id: the generated id is one no row has
NewId(table) == IdNames[Cardinality(DOMAIN table) + 1]

\* the ids a caller asks about: those of the rows, and one that has no row
Ids(table) == DOMAIN table \cup {NewId(table)}
InsertRow(table, row) ==
    [i \in DOMAIN table \cup {NewId(table)} |->
        IF i \in DOMAIN table THEN table[i] ELSE row]

\* a foreign key of the schema: the referenced row exists
ReferenceHolds(parent, id) == id \in DOMAIN parent

\* cursor.fetchone() after SELECT ... WHERE id = %s is a row, not None
HasRow(table, id) == id \in DOMAIN table

\* the row as SELECT * gives it, its id with its columns
WithId(table, id) == [id |-> id, row |-> table[id]]

\* what a call leaves in ret
Call(op, arg, drv, now, kind, value, exc) ==
    [op |-> op, arg |-> arg, drv |-> drv, now |-> now,
     kind |-> kind, value |-> value, exc |-> exc]
Returned(op, arg, value) == Call(op, arg, TRUE, Null, "return", value, "none")
Raised(op, arg, drv, exc) == Call(op, arg, drv, Null, "raise", <<>>, exc)

ShaperIdle == UNCHANGED <<fn, args, result>>

\* one creation error shared by the three inserts
CreationErrorShared(op) == "InferenceCreationError"

\* the error kind each insert raises when it fails

CreationError(op) ==
    CASE op = "new_inference" -> "InferenceCreationError"
      [] op = "new_inference_object" -> "InferenceCreationError"
      [] op = "new_seed_object" -> "SeedObjectCreationError"

(***************************************************************************)
(* Table inference                                                         *)
(***************************************************************************)
\* the VALUES tuple misordered: the user id is bound to the inference column
InferenceRowMisbound(inference_, picture_id, user_id) ==
    [inference |-> user_id, picture_id |-> picture_id, user_id |-> inference_,
     feedback_user_id |-> Null, verified |-> Null]

\* INSERT INTO inference(inference, picture_id, user_id) VALUES (%s,%s,%s)
InferenceRow(inference_, picture_id, user_id) ==
    [inference |-> inference_, picture_id |-> picture_id, user_id |-> user_id,
     feedback_user_id |-> Null, verified |-> Null]

new_inference ==
    \E content \in Contents, user_id \in Users, drv \in BOOLEAN :
        LET arg == <<content, user_id, "pic1">>
            id == NewId(inference)
        IN  /\ RowCount < MaxRows
            /\ IF drv
               THEN /\ inference' = InsertRow(inference, InferenceRow(content, "pic1", user_id))
                    /\ inserted' = [inserted EXCEPT !.inference =
                                        InsertRow(inserted.inference, arg)]
                    /\ ret' = Returned("new_inference", arg, id)
               ELSE /\ ret' = Raised("new_inference", arg, drv,
                                     CreationError("new_inference"))
                    /\ UNCHANGED <<inference, inserted>>
            /\ UNCHANGED <<object, seed_obj>>
            /\ ShaperIdle

get_inference ==
    \E inference_id \in Ids(inference), drv \in BOOLEAN :
        LET arg == <<inference_id>>
        IN  /\ ret' = IF drv /\ HasRow(inference, inference_id)
                      THEN Returned("get_inference", arg,
                                    inference[inference_id].inference)
                      ELSE Raised("get_inference", arg, drv, "InferenceNotFoundError")
            /\ UNCHANGED <<inference, object, seed_obj, inserted>>
            /\ ShaperIdle

\* a setter's try/except: the statement ran, or the driver raised
SetterOutcome(op, arg, drv, now) ==
    IF drv THEN Call(op, arg, TRUE, now, "return", <<>>, "none")
    ELSE Call(op, arg, FALSE, now, "raise", <<>>, "Exception")

\* the statement written as an upsert: an id without a row gets one
UpsertFeedbackUserId(table, id, user_id) ==
    [i \in DOMAIN table \cup {id} |->
        IF i = id
        THEN [inference |-> Null, picture_id |-> Null, user_id |-> Null,
              feedback_user_id |-> user_id, verified |-> Null]
        ELSE table[i]]

\* UPDATE inference SET feedback_user_id = %s WHERE id = %s
UpdateFeedbackUserId(table, id, user_id) ==
    [i \in DOMAIN table |->
        IF i = id THEN [table[i] EXCEPT !.feedback_user_id = user_id] ELSE table[i]]

set_inference_feedback_user_id ==
    \E inference_id \in Ids(inference), user_id \in Users, drv \in BOOLEAN :
        /\ inference' = IF drv THEN UpdateFeedbackUserId(inference, inference_id, user_id)
                        ELSE inference
        /\ ret' = SetterOutcome("set_inference_feedback_user_id",
                                <<inference_id, user_id>>, drv, Null)
        /\ UNCHANGED <<object, seed_obj, inserted>>
        /\ ShaperIdle

\* UPDATE inference SET verified = %s WHERE id = %s
UpdateVerified(table, id, is_verified) ==
    [i \in DOMAIN table |->
        IF i = id THEN [table[i] EXCEPT !.verified = is_verified] ELSE table[i]]

set_inference_verified ==
    \E inference_id \in Ids(inference), is_verified \in Flags, drv \in BOOLEAN :
        /\ inference' = IF drv THEN UpdateVerified(inference, inference_id, is_verified)
                        ELSE inference
        /\ ret' = SetterOutcome("set_inference_verified",
                                <<inference_id, is_verified>>, drv, Null)
        /\ UNCHANGED <<object, seed_obj, inserted>>
        /\ ShaperIdle

(***************************************************************************)
(* Table object                                                            *)
(***************************************************************************)
\* INSERT INTO object(inference_id, box_metadata, type_id) VALUES (%s,%s,%s)
ObjectRow(inference_id, box_metadata, type_id) ==
    [inference_id |-> inference_id, box_metadata |-> box_metadata,
     type_id |-> type_id, top_id |-> Null, verified_id |-> Null,
     valid |-> Null, updated_at |-> Null]

\* object.inference_id references inference(id): the insert of an object
\* of an inference that does not exist fails
new_inference_object ==
    \E inference_id \in Ids(inference), box_metadata \in Boxes, drv \in BOOLEAN :
        LET arg == <<inference_id, box_metadata, "type1">>
            id == NewId(object)
            ok == drv /\ ReferenceHolds(inference, inference_id)
        IN  /\ RowCount < MaxRows
            /\ IF ok
               THEN /\ object' = InsertRow(object, ObjectRow(inference_id, box_metadata, "type1"))
                    /\ inserted' = [inserted EXCEPT !.object =
                                        InsertRow(inserted.object, arg)]
                    /\ ret' = Returned("new_inference_object", arg, id)
               ELSE /\ ret' = Raised("new_inference_object", arg, ok,
                                     CreationError("new_inference_object"))
                    /\ UNCHANGED <<object, inserted>>
            /\ UNCHANGED <<inference, seed_obj>>
            /\ ShaperIdle

get_inference_object ==
    \E inference_object_id \in Ids(object), drv \in BOOLEAN :
        LET arg == <<inference_object_id>>
        IN  /\ ret' = IF drv /\ HasRow(object, inference_object_id)
                      THEN Returned("get_inference_object", arg,
                                    WithId(object, inference_object_id))
                      ELSE Raised("get_inference_object", arg, drv,
                                  "InferenceObjectNotFoundError")
            /\ UNCHANGED <<inference, object, seed_obj, inserted>>
            /\ ShaperIdle

\* the statement selecting on the wrong column: WHERE id = %s
SelectObjectsById(table, inference_id) ==
    {WithId(table, i) : i \in {j \in DOMAIN table : j = inference_id}}

\* SELECT * FROM object WHERE inference_id = %s, then cursor.fetchall()
SelectObjectsByInference(table, inference_id) ==
    {WithId(table, i) : i \in {j \in DOMAIN table : table[j].inference_id = inference_id}}

get_objects_by_inference ==
    \E inference_id \in Ids(inference), drv \in BOOLEAN :
        LET arg == <<inference_id>>
        IN  /\ ret' = IF drv
                      THEN Returned("get_objects_by_inference", arg,
                                    SelectObjectsByInference(object, inference_id))
                      ELSE Raised("get_objects_by_inference", arg, drv,
                                  "InferenceObjectNotFoundError")
            /\ UNCHANGED <<inference, object, seed_obj, inserted>>
            /\ ShaperIdle

\* UPDATE object SET top_id = %s WHERE id = %s
UpdateTopId(table, id, top_id) ==
    [i \in DOMAIN table |->
        IF i = id THEN [table[i] EXCEPT !.top_id = top_id] ELSE table[i]]

set_inference_object_top_id ==
    \E inference_object_id \in Ids(object), top_id \in Ids(seed_obj),
       drv \in BOOLEAN :
        /\ object' = IF drv THEN UpdateTopId(object, inference_object_id, top_id)
                     ELSE object
        /\ ret' = SetterOutcome("set_inference_object_top_id",
                                <<inference_object_id, top_id>>, drv, Null)
        /\ UNCHANGED <<inference, seed_obj, inserted>>
        /\ ShaperIdle

get_inference_object_top_id ==
    \E inference_object_id \in Ids(object), drv \in BOOLEAN :
        LET arg == <<inference_object_id>>
        IN  /\ ret' = IF drv /\ HasRow(object, inference_object_id)
                      THEN Returned("get_inference_object_top_id", arg,
                                    object[inference_object_id].top_id)
                      ELSE Raised("get_inference_object_top_id", arg, drv, "Exception")
            /\ UNCHANGED <<inference, object, seed_obj, inserted>>
            /\ ShaperIdle

\* the statement without its timestamp, as the other setters are written
UpdateVerifiedIdNoStamp(table, id, verified_id, now) ==
    [i \in DOMAIN table |->
        IF i = id THEN [table[i] EXCEPT !.verified_id = verified_id] ELSE table[i]]

\* UPDATE object SET verified_id = %s, updated_at = CURRENT_TIMESTAMP WHERE id = %s
UpdateVerifiedId(table, id, verified_id, now) ==
    [i \in DOMAIN table |->
        IF i = id THEN [table[i] EXCEPT !.verified_id = verified_id, !.updated_at = now]
        ELSE table[i]]

set_inference_object_verified_id ==
    \E inference_object_id \in Ids(object), verified_id \in Seeds,
       now \in Timestamps, drv \in BOOLEAN :
        /\ object' = IF drv
                     THEN UpdateVerifiedId(object, inference_object_id, verified_id, now)
                     ELSE object
        /\ ret' = SetterOutcome("set_inference_object_verified_id",
                                <<inference_object_id, verified_id>>, drv, now)
        /\ UNCHANGED <<inference, seed_obj, inserted>>
        /\ ShaperIdle

\* UPDATE object SET valid = %s WHERE id = %s
UpdateValid(table, id, is_valid) ==
    [i \in DOMAIN table |->
        IF i = id THEN [table[i] EXCEPT !.valid = is_valid] ELSE table[i]]

set_inference_object_valid ==
    \E inference_object_id \in Ids(object), is_valid \in Flags, drv \in BOOLEAN :
        /\ object' = IF drv THEN UpdateValid(object, inference_object_id, is_valid)
                     ELSE object
        /\ ret' = SetterOutcome("set_inference_object_valid",
                                <<inference_object_id, is_valid>>, drv, Null)
        /\ UNCHANGED <<inference, seed_obj, inserted>>
        /\ ShaperIdle

(***************************************************************************)
(* Table seed_obj                                                          *)
(***************************************************************************)
\* the score left out of the column list: the row holds the column's default
SeedObjRowNoScore(seed_id, object_id, score) ==
    [seed_id |-> seed_id, object_id |-> object_id, score |-> Null]

\* INSERT INTO seed_obj(seed_id, object_id, score) VALUES (%s,%s,%s)
SeedObjRow(seed_id, object_id, score) ==
    [seed_id |-> seed_id, object_id |-> object_id, score |-> score]

\* seed_obj.object_id references object(id)
new_seed_object ==
    \E seed_id \in Seeds, object_id \in Ids(object), score \in Scores,
       drv \in BOOLEAN :
        LET arg == <<seed_id, object_id, score>>
            id == NewId(seed_obj)
            ok == drv /\ ReferenceHolds(object, object_id)
        IN  /\ RowCount < MaxRows
            /\ IF ok
               THEN /\ seed_obj' = InsertRow(seed_obj, SeedObjRow(seed_id, object_id, score))
                    /\ inserted' = [inserted EXCEPT !.seed_obj =
                                        InsertRow(inserted.seed_obj, arg)]
                    /\ ret' = Returned("new_seed_object", arg, id)
               ELSE /\ ret' = Raised("new_seed_object", arg, ok,
                                     CreationError("new_seed_object"))
                    /\ UNCHANGED <<seed_obj, inserted>>
            /\ UNCHANGED <<inference, object>>
            /\ ShaperIdle

(***************************************************************************)
(* The query layer: a caller makes any call at any time                    *)
(***************************************************************************)
Init ==
    /\ StoreIdle
    /\ fn = "none"
    /\ args = <<>>
    /\ result = Pending

\* the caller takes the outcome of its call; calls are synchronous, one at
\* a time on the cursor
TakeOutcome ==
    /\ ret.op # "none"
    /\ ret' = NoCall
    /\ UNCHANGED <<inference, object, seed_obj, inserted>>
    /\ ShaperIdle

Idle == ret.op = "none"

Next ==
    \/ Idle /\ new_inference
    \/ Idle /\ get_inference
    \/ Idle /\ set_inference_feedback_user_id
    \/ Idle /\ set_inference_verified
    \/ Idle /\ new_inference_object
    \/ Idle /\ get_inference_object
    \/ Idle /\ get_objects_by_inference
    \/ Idle /\ set_inference_object_top_id
    \/ Idle /\ get_inference_object_top_id
    \/ Idle /\ set_inference_object_verified_id
    \/ Idle /\ set_inference_object_valid
    \/ Idle /\ new_seed_object
    \/ TakeOutcome

Spec == Init /\ [][Next]_vars

(***************************************************************************)
(* Properties of the query layer, under Spec                               *)
(***************************************************************************)
InferenceSetters == {"set_inference_feedback_user_id", "set_inference_verified"}
ObjectSetters ==
    {"set_inference_object_top_id", "set_inference_object_verified_id",
     "set_inference_object_valid"}
Setters == InferenceSetters \cup ObjectSetters
Inserts == {"new_inference", "new_inference_object", "new_seed_object"}
Tables == <<inference, object, seed_obj>>

\* C4: get_inference of an id new_inference returned gives the content that
\* call inserted, whatever calls came between; get_inference_object of an
\* id new_inference_object returned gives a row with the inference
\* reference, box metadata and type reference that call inserted.  (The
\* read is one whose statement the driver ran.)
C4_CreateThenRead ==
    /\ (ret.op \in Inserts /\ ret.kind = "return") =>
            ret.value \in DOMAIN (CASE ret.op = "new_inference" -> inserted.inference
                                    [] ret.op = "new_inference_object" -> inserted.object
                                    [] OTHER -> inserted.seed_obj)
    /\ (ret.op = "get_inference" /\ ret.drv
            /\ ret.arg[1] \in DOMAIN inserted.inference) =>
            /\ ret.kind = "return"
            /\ ret.value = inserted.inference[ret.arg[1]][1]
    /\ (ret.op = "get_inference_object" /\ ret.drv
            /\ ret.arg[1] \in DOMAIN inserted.object) =>
            /\ ret.kind = "return"
            /\ ret.value.id = ret.arg[1]
            /\ ret.value.row.inference_id = inserted.object[ret.arg[1]][1]
            /\ ret.value.row.box_metadata = inserted.object[ret.arg[1]][2]
            /\ ret.value.row.type_id = inserted.object[ret.arg[1]][3]

\* an inference was read back after both setters changed its row, another
\* inference with another content being stored
C4_Witness ==
    /\ ret.op = "get_inference" /\ ret.kind = "return"
    /\ inference[ret.arg[1]].verified # Null
    /\ inference[ret.arg[1]].feedback_user_id # Null
    /\ \E i \in DOMAIN inference : inference[i].inference # ret.value

ReadsById == {"get_inference", "get_inference_object", "get_inference_object_top_id"}
ReadTable == IF ret.op = "get_inference" THEN inference ELSE object
NotFoundOf(op) ==
    IF op = "get_inference" THEN "InferenceNotFoundError"
    ELSE "InferenceObjectNotFoundError"

\* C5: a read by id of an id that has no row, or one whose statement the
\* driver fails, raises the NotFound error of its entity and returns nothing.
C5_ReadRaisesNotFound ==
    (ret.op \in ReadsById /\ (~ret.drv \/ ret.arg[1] \notin DOMAIN ReadTable)) =>
        /\ ret.kind = "raise"
        /\ ret.exc = NotFoundOf(ret.op)

\* C6: get_objects_by_inference returns the object rows whose inference
\* reference is the id asked for, all of them and no others, so nothing when
\* there is none; it raises, InferenceObjectNotFoundError, only when the
\* driver fails.
C6_ObjectsByInference ==
    (ret.op = "get_objects_by_inference") =>
        IF ret.drv
        THEN /\ ret.kind = "return"
             /\ \A i \in DOMAIN object :
                    ([id |-> i, row |-> object[i]] \in ret.value)
                        <=> (object[i].inference_id = ret.arg[1])
             /\ \A r \in ret.value : r.id \in DOMAIN object /\ r.row = object[r.id]
        ELSE ret.kind = "raise" /\ ret.exc = "InferenceObjectNotFoundError"

\* the two objects of one inference were returned, another inference having none
C6_Witness ==
    /\ ret.op = "get_objects_by_inference" /\ ret.kind = "return"
    /\ Cardinality(ret.value) = 2

SetterTable(op) == IF op \in InferenceSetters THEN inference ELSE object

\* C7: a setter called with an id that has no row changes no row of any
\* table and creates none, and returns normally when the driver ran its
\* statement.
C7_SetterOnMissingId ==
    [][(ret'.op \in Setters /\ ret'.arg[1] \notin DOMAIN SetterTable(ret'.op)) =>
            /\ UNCHANGED Tables
            /\ ret'.drv => ret'.kind = "return"]_vars

\* a setter called with an id that has no row has returned, rows being stored
C7_Witness ==
    /\ ret.op \in Setters /\ ret.kind = "return"
    /\ ret.arg[1] \notin DOMAIN SetterTable(ret.op)
    /\ DOMAIN SetterTable(ret.op) # {}

\* C8 as claimed: the kind a failed insert raises is the kind of no other
\* entity's failed insert.
C8_KindPerEntity ==
    (ret.op \in Inserts /\ ret.kind = "raise") =>
        \A other \in Inserts \ {ret.op} : ret.exc # CreationError(other)

\* C8 as amended: a failed new_inference and a failed new_inference_object
\* raise InferenceCreationError, a failed new_seed_object raises
\* SeedObjectCreationError; a failed insert returns no id and adds no row.
C8_CreationErrors ==
    [][(ret'.op \in Inserts /\ (ret'.kind = "raise" \/ ~ret'.drv)) =>
            /\ ret'.kind = "raise"
            /\ ret'.exc = IF ret'.op = "new_seed_object"
                          THEN "SeedObjectCreationError"
                          ELSE "InferenceCreationError"
            /\ ret'.value = <<>>
            /\ UNCHANGED Tables]_vars

\* the insert of an object has failed
C8_Witness ==
    /\ ret.op = "new_inference_object" /\ ret.kind = "raise"
    /\ DOMAIN inference # {}

\* the column(s) a setter writes and the value it writes
TargetOf(op) ==
    CASE op = "set_inference_feedback_user_id" -> "feedback_user_id"
      [] op = "set_inference_verified" -> "verified"
      [] op = "set_inference_object_top_id" -> "top_id"
      [] op = "set_inference_object_verified_id" -> "verified_id"
      [] op = "set_inference_object_valid" -> "valid"

Written(op) ==
    IF op = "set_inference_object_verified_id"
    THEN {"verified_id", "updated_at"} ELSE {TargetOf(op)}

\* the step changes, in the table before/after, only the columns cols of row id
OnlyColumns(before, after, id, cols) ==
    /\ DOMAIN after = DOMAIN before
    /\ \A i \in DOMAIN before \ {id} : after[i] = before[i]
    /\ DOMAIN after[id] = DOMAIN before[id]
    /\ \A c \in DOMAIN before[id] \ cols : after[id][c] = before[id][c]

\* C9: a setter that returns, called with the id of a row, writes its
\* value to its own column of that row and changes no other column, no
\* other row and no other table; set_inference_object_verified_id alone
\* also writes the statement's timestamp to updated_at.
C9_SetterFrame ==
    [][(ret'.op \in Setters /\ ret'.kind = "return"
            /\ ret'.arg[1] \in DOMAIN SetterTable(ret'.op)) =>
            /\ seed_obj' = seed_obj
            /\ IF ret'.op \in InferenceSetters
               THEN /\ object' = object
                    /\ OnlyColumns(inference, inference', ret'.arg[1], Written(ret'.op))
                    /\ inference'[ret'.arg[1]][TargetOf(ret'.op)] = ret'.arg[2]
               ELSE /\ inference' = inference
                    /\ OnlyColumns(object, object', ret'.arg[1], Written(ret'.op))
                    /\ object'[ret'.arg[1]][TargetOf(ret'.op)] = ret'.arg[2]
                    /\ (ret'.op = "set_inference_object_verified_id") =>
                            object'[ret'.arg[1]].updated_at = ret'.now]_vars

\* the verified id of an object whose top id was set has been set and
\* stamped, another object being stored
C9_Witness ==
    /\ ret.op = "set_inference_object_verified_id" /\ ret.kind = "return"
    /\ ret.arg[1] \in DOMAIN object
    /\ object[ret.arg[1]].updated_at \in Timestamps
    /\ object[ret.arg[1]].top_id # Null
    /\ Cardinality(DOMAIN object) = 2

\* C10: every row an insert created exists, no step removes a row of any
\* table, and every seed_obj row holds the seed reference, object reference
\* and score it was created with.
C10_RowsPersist ==
    /\ [](/\ DOMAIN inserted.inference \subseteq DOMAIN inference
          /\ DOMAIN inserted.object \subseteq DOMAIN object
          /\ DOMAIN inserted.seed_obj = DOMAIN seed_obj
          /\ \A i \in DOMAIN seed_obj :
                /\ seed_obj[i].seed_id = inserted.seed_obj[i][1]
                /\ seed_obj[i].object_id = inserted.seed_obj[i][2]
                /\ seed_obj[i].score = inserted.seed_obj[i][3])
    /\ [][/\ DOMAIN inference \subseteq DOMAIN inference'
          /\ DOMAIN object \subseteq DOMAIN object'
          /\ DOMAIN seed_obj \subseteq DOMAIN seed_obj'
          /\ \A i \in DOMAIN seed_obj : seed_obj'[i] = seed_obj[i]]_vars

\* a seed object is stored whose object has since had its top id, its
\* verified id and its validity set
C10_Witness ==
    \E i \in DOMAIN seed_obj :
        /\ seed_obj[i].score = "0.75"
        /\ object[seed_obj[i].object_id].top_id = i
        /\ object[seed_obj[i].object_id].verified_id # Null
        /\ object[seed_obj[i].object_id].valid # Null
        /\ ret.op = "set_inference_verified" /\ ret.kind = "return"

====
